---- MODULE Spec2Model ----
(***************************************************************************)
(* A model of src/src/components/TaskManager.tsx: the slot grid generator, *)
(* the ranking and greedy placement of generateSchedule, and the           *)
(* TaskManager component that recomputes the schedule when its task list   *)
(* changes.                                                                *)
(*                                                                         *)
(* Encodings.  A slot label `${hour}:00` / `${hour}:30` is the pair        *)
(* <<hour, 0>> / <<hour, 30>>.  A Date is its time value in whole hours;   *)
(* the key toISOString().split("T")[0] is the number of the UTC day.  A    *)
(* deadline string "YYYY-MM-DD" is the number of its day.  A JavaScript    *)
(* object ({} , schedule, schedule[date]) is a function whose DOMAIN is    *)
(* the set of its keys; {} is <<>>.                                        *)
(***************************************************************************)
EXTENDS Integers, Sequences, FiniteSets, TLC

(***************************************************************************)
(* Bounds of the model.                                                    *)
(***************************************************************************)
\* Longest task list handed to one stepwise run of generateSchedule.
MaxTasks == 3

\* Longest task list of the ranking specification.
MaxRankTasks == 3

\* Longest task list of the component.
MaxListed == 2

\* Largest task id the component gives.
MaxId == 3

\* Last day (UTC day number) on which an event of the component happens.
LastDay == 102

\* Number of day advances after which the model stops following a run
\* (the code itself has no such limit).
MaxDays == MaxTasks + 2

\* Durations (minutes) of the tasks of a stepwise run: 1, 2, 15, 16 and 20
\* slots (a day has 16).
Durations == {30, 45, 450, 480, 600}

\* Priorities of the tasks of a stepwise run.
RunPriorities == {"ASAP", "Soft deadline"}

\* Deadlines (day numbers).
Deadlines == {1, 2}

(***************************************************************************)
(* interface Task (lines 21-28).                                           *)
(***************************************************************************)
Importances == {"ASAP", "High", "Average", "Low"}

Priorities == {"ASAP", "Hard deadline", "Soft deadline", "No deadline"}

\* A task without its id, as the form holds it (Omit<Task, "id">).
TaskForm(d, imp, pri, dl) ==
    [title |-> "t", duration |-> d, importance |-> imp, priority |-> pri,
     deadline |-> dl]

WithId(form, id) ==
    [id |-> id, title |-> form.title, duration |-> form.duration,
     importance |-> form.importance, priority |-> form.priority,
     deadline |-> form.deadline]

(***************************************************************************)
(* generateTimeSlots (lines 11-18).                                        *)
(***************************************************************************)
\* The loop with hour <= endHour: the end hour gets slots too.
RECURSIVE generateTimeSlotsInclusive(_, _)
generateTimeSlotsInclusive(startHour, endHour) ==
    IF startHour <= endHour
    THEN <<<<startHour, 0>>, <<startHour, 30>>>>
             \o generateTimeSlotsInclusive(startHour + 1, endHour)
    ELSE <<>>

RECURSIVE generateTimeSlots(_, _)
generateTimeSlots(startHour, endHour) ==
    IF startHour < endHour
    THEN <<<<startHour, 0>>, <<startHour, 30>>>>
             \o generateTimeSlots(startHour + 1, endHour)
    ELSE <<>>

DefaultStartHour == 9

DefaultEndHour == 17

\* const timeSlots = generateTimeSlots();  (line 109)
timeSlots == generateTimeSlots(DefaultStartHour, DefaultEndHour)

(***************************************************************************)
(* The Date object.  The host's time zone is a record: the UTC offset      *)
(* (hours) before and after one daylight-saving transition, and the        *)
(* instant of that transition.                                             *)
(***************************************************************************)
UTC == [before |-> 0, after |-> 0, at |-> 0]

\* Clocks go forward one hour (UTC-5 to UTC-4) at 07:00 UTC of day 102.
SpringForward == [before |-> -5, after |-> -4, at |-> 2455]

\* Clocks go back one hour (UTC-4 to UTC-5) at 06:00 UTC of day 102.
FallBack == [before |-> -4, after |-> -5, at |-> 2454]

LocalOffset(t, zone) == IF t < zone.at THEN zone.before ELSE zone.after

\* The local calendar day of instant t (what getDate() counts).
LocalDay(t, zone) == (t + LocalOffset(t, zone)) \div 24

\* currentDate.toISOString().split("T")[0]  (line 119): the UTC day.
DateString(t) == t \div 24

\* setDate(getDate()): the + 1 forgotten.
SetDateSameDay(t, zone) == t

\* currentDate.setDate(currentDate.getDate() + 1)  (line 144): the same
\* local wall-clock time on the next local calendar day.  A wall-clock time
\* that two instants share, or none has, is read with the offset in force
\* before the transition.
SetDateNextDay(t, zone) ==
    LET local == t + LocalOffset(t, zone) + 24
        t1 == local - zone.before
        t2 == local - zone.after
    IN  IF t1 < zone.at THEN t1
        ELSE IF t2 >= zone.at THEN t2
        ELSE t1

\* new Date(deadline).getTime()  (line 105), in hours.
DeadlineTime(deadline) == deadline * 24

(***************************************************************************)
(* JavaScript objects used as maps.                                        *)
(***************************************************************************)
HasKey(obj, k) == k \in DOMAIN obj

\* obj[k] = v
Put(obj, k, v) == [x \in DOMAIN obj \cup {k} |-> IF x = k THEN v ELSE obj[x]]

(***************************************************************************)
(* Ranking (lines 84-106).                                                 *)
(***************************************************************************)
priorityOrder ==
    ("ASAP" :> 0) @@ ("Hard deadline" :> 1) @@ ("Soft deadline" :> 2)
        @@ ("No deadline" :> 3)

importanceOrder ==
    ("ASAP" :> 0) @@ ("High" :> 1) @@ ("Average" :> 2) @@ ("Low" :> 3)

\* Compare with the first two keys in the wrong order: importance decides
\* before priority.
CompareImportanceFirst(a, b) ==
    IF importanceOrder[a.importance] # importanceOrder[b.importance]
    THEN importanceOrder[a.importance] - importanceOrder[b.importance]
    ELSE IF priorityOrder[a.priority] # priorityOrder[b.priority]
    THEN priorityOrder[a.priority] - priorityOrder[b.priority]
    ELSE DeadlineTime(a.deadline) - DeadlineTime(b.deadline)

\* The comparator handed to sort (lines 98-106).
Compare(a, b) ==
    IF priorityOrder[a.priority] # priorityOrder[b.priority]
    THEN priorityOrder[a.priority] - priorityOrder[b.priority]
    ELSE IF importanceOrder[a.importance] # importanceOrder[b.importance]
    THEN importanceOrder[a.importance] - importanceOrder[b.importance]
    ELSE DeadlineTime(a.deadline) - DeadlineTime(b.deadline)

\* Array.prototype.sort is stable: x goes behind every element that does
\* not compare greater than it.
RECURSIVE InsertSorted(_, _)
InsertSorted(s, x) ==
    IF s = <<>> THEN <<x>>
    ELSE IF Compare(s[Len(s)], x) > 0
    THEN Append(InsertSorted(SubSeq(s, 1, Len(s) - 1), x), s[Len(s)])
    ELSE Append(s, x)

\* The sort left out: the tasks stay in input order.
SortTasksNone(ts) == ts

\* [...tasks].sort(comparator)  (line 98)
RECURSIVE SortTasks(_)
SortTasks(ts) ==
    IF ts = <<>> THEN <<>>
    ELSE InsertSorted(SortTasks(SubSeq(ts, 1, Len(ts) - 1)), ts[Len(ts)])

(***************************************************************************)
(* Placement helpers (lines 113-147).                                      *)
(***************************************************************************)
SlotLength == 30

\* SlotsNeeded rounding down (Math.floor for Math.ceil).
SlotsNeededFloor(task) == task.duration \div SlotLength

\* Math.ceil(taskDuration / 30)  (line 115), for the integer durations of
\* the model.
SlotsNeeded(task) ==
    IF task.duration > 0
    THEN (task.duration + SlotLength - 1) \div SlotLength
    ELSE -((-task.duration) \div SlotLength)

\* if (!schedule[dateString]) schedule[dateString] = {}  (lines 120-122)
EnsureDate(sched, dateString) ==
    IF HasKey(sched, dateString) THEN sched ELSE Put(sched, dateString, <<>>)

\* IsFree without the look at the slot: every slot counts as free.
IsFreeUnchecked(sched, dateString, idx) == TRUE

\* !schedule[dateString][timeSlots[i]]  (line 126); i counts from 0.
IsFree(sched, dateString, idx) == ~HasKey(sched[dateString], timeSlots[idx + 1])

\* The first index the inner loop writes (line 130).
FirstAssigned(idx, available) == idx - available + 1

\* for (j = i - availableSlots + 1; j <= i; j++)
\*     schedule[dateString][timeSlots[j]] = task   (lines 130-132)
RECURSIVE AssignFrom(_, _, _, _)
AssignFrom(day, j, idx, task) ==
    IF j <= idx
    THEN AssignFrom(Put(day, timeSlots[j + 1], task), j + 1, idx, task)
    ELSE day

AssignRun(sched, dateString, idx, available, task) ==
    Put(sched, dateString,
        AssignFrom(sched[dateString], FirstAssigned(idx, available), idx, task))

(***************************************************************************)
(* State.                                                                  *)
(***************************************************************************)
VARIABLES
    tasks,             \* the argument of generateSchedule
    clock,             \* the instant new Date() returns (line 110)
    timeZone,          \* the host's time zone
    sortedTasks,       \* line 98
    schedule,          \* line 108
    currentDate,       \* line 110
    currentSlotIndex,  \* line 111
    taskIdx,           \* position of forEach in sortedTasks (line 113)
    slotsNeeded,       \* line 115
    scheduled,         \* line 117
    availableSlots,    \* line 124
    i,                 \* line 125
    pc,                \* where the call is
    tasksState,        \* the component's state `tasks` (line 33)
    scheduleState,     \* the component's state `schedule` (line 34)
    localStorage,      \* the browser's storage: key -> what was stored
    lastId,            \* the largest Date.now() that became a task id (line 67)
    newTask,           \* the component's state `newTask`, the form (line 35)
    phase,             \* where the component is
    startHourArg,      \* the argument startHour of a call of generateTimeSlots
    endHourArg,        \* the argument endHour of that call
    slots,             \* what the call returned (line 17)
    gridPc             \* where the call of generateTimeSlots is

\* A call of generateTimeSlots on its own.
gridVars == <<startHourArg, endHourArg, slots, gridPc>>

\* The component's own state.
compVars == <<tasksState, scheduleState, localStorage, lastId, newTask, phase>>

\* The argument and the locals of a call of generateSchedule.
callVars == <<tasks, sortedTasks, schedule, currentDate, currentSlotIndex,
              taskIdx, slotsNeeded, scheduled, availableSlots, i, pc>>

vars == <<tasks, clock, timeZone, sortedTasks, schedule, currentDate,
          currentSlotIndex, taskIdx, slotsNeeded, scheduled, availableSlots,
          i, pc, tasksState, scheduleState, localStorage, lastId, newTask,
          phase,
          startHourArg, endHourArg, slots, gridPc>>

\* The task lists of at most max tasks over a set of forms; ids are 1..n in
\* list order (addTask appends with id Date.now()).
IsTaskList(ts, forms, max) ==
    \E n \in 0..max : \E f \in [1..n -> forms] :
        ts = [k \in 1..n |-> WithId(f[k], k)]

RunForms ==
    {TaskForm(d, "Average", p, 1) : d \in Durations, p \in RunPriorities}

\* The hosts of a stepwise run: UTC, and a zone whose transition falls in
\* the first or the second night of the run.
Environments ==
    {[zone |-> UTC, now |-> 2436],
     [zone |-> SpringForward, now |-> 2424], [zone |-> SpringForward, now |-> 2448],
     [zone |-> FallBack, now |-> 2423], [zone |-> FallBack, now |-> 2447]}

\* The locals of generateSchedule before the call.
LocalsInit ==
    /\ sortedTasks = <<>>
    /\ schedule = <<>>
    /\ currentDate = 0
    /\ currentSlotIndex = 0
    /\ taskIdx = 0
    /\ slotsNeeded = 0
    /\ scheduled = FALSE
    /\ availableSlots = 0
    /\ i = 0
    /\ pc = "start"

\* No call of generateTimeSlots with arguments: line 109 takes the defaults.
NoGrid ==
    /\ startHourArg = DefaultStartHour
    /\ endHourArg = DefaultEndHour
    /\ slots = <<>>
    /\ gridPc = "none"

\* The form as lines 35-41 and 69-75 set it at instant now: the deadline is
\* new Date().toISOString().split("T")[0], the UTC date of now.
DefaultNewTask(now) ==
    [title |-> "", duration |-> 30, importance |-> "Average",
     priority |-> "Soft deadline", deadline |-> DateString(now)]

\* No component: generateSchedule is called on its own.
NoComponent ==
    /\ newTask = DefaultNewTask(clock)
    /\ tasksState = <<>>
    /\ scheduleState = <<>>
    /\ localStorage = <<>>
    /\ lastId = 0
    /\ phase = "none"

Init ==
    /\ IsTaskList(tasks, RunForms, MaxTasks)
    /\ \E env \in Environments : clock = env.now /\ timeZone = env.zone
    /\ LocalsInit
    /\ NoComponent
    /\ NoGrid

(***************************************************************************)
(* generateSchedule, statement by statement.                               *)
(***************************************************************************)
\* forEach over the argument instead of the sorted copy.
taskUnsorted == tasks[taskIdx]

\* The task forEach is at (line 113).
task == sortedTasks[taskIdx]

dateString == DateString(currentDate)

\* Sort without the copy of line 98 (tasks.sort(...)): the argument itself
\* is put in ranked order.
SortInPlace ==
    /\ pc = "start"
    /\ tasks' = SortTasks(tasks)
    /\ sortedTasks' = SortTasks(tasks)
    /\ schedule' = <<>>
    /\ currentDate' = clock
    /\ currentSlotIndex' = 0
    /\ taskIdx' = 1
    /\ pc' = "forEach"
    /\ UNCHANGED <<gridVars, compVars, clock, timeZone, slotsNeeded, scheduled,
                   availableSlots, i>>

\* Lines 84-111: rank a copy of the tasks, set up the running state.
Sort ==
    /\ pc = "start"
    /\ sortedTasks' = SortTasks(tasks)
    /\ schedule' = <<>>
    /\ currentDate' = clock
    /\ currentSlotIndex' = 0
    /\ taskIdx' = 1
    /\ pc' = "forEach"
    /\ UNCHANGED <<gridVars, compVars, tasks, clock, timeZone, slotsNeeded, scheduled,
                   availableSlots, i>>

\* Lines 113-117: forEach takes the next task.
ForEachTask ==
    /\ pc = "forEach"
    /\ taskIdx <= Len(sortedTasks)
    /\ slotsNeeded' = SlotsNeeded(task)
    /\ scheduled' = FALSE
    /\ pc' = "while"
    /\ UNCHANGED <<gridVars, compVars, tasks, clock, timeZone, sortedTasks, schedule, currentDate,
                   currentSlotIndex, taskIdx, availableSlots, i>>

\* Line 150: forEach is over, return schedule.
Return ==
    /\ pc = "forEach"
    /\ taskIdx > Len(sortedTasks)
    /\ pc' = "done"
    /\ UNCHANGED <<gridVars, compVars, tasks, clock, timeZone, sortedTasks, schedule, currentDate,
                   currentSlotIndex, taskIdx, slotsNeeded, scheduled,
                   availableSlots, i>>

\* Lines 118-125: a pass of while (!scheduled) begins.
WhileEnter ==
    /\ pc = "while"
    /\ ~scheduled
    /\ schedule' = EnsureDate(schedule, dateString)
    /\ availableSlots' = 0
    /\ i' = currentSlotIndex
    /\ pc' = "for"
    /\ UNCHANGED <<gridVars, compVars, tasks, clock, timeZone, sortedTasks, currentDate,
                   currentSlotIndex, taskIdx, slotsNeeded, scheduled>>

\* Lines 126-136: slot i is free.
ForFree ==
    /\ pc = "for"
    /\ i < Len(timeSlots)
    /\ IsFree(schedule, dateString, i)
    /\ availableSlots' = availableSlots + 1
    /\ IF availableSlots + 1 = slotsNeeded
       THEN /\ schedule' = AssignRun(schedule, dateString, i, availableSlots + 1, task)
            /\ scheduled' = TRUE
            /\ currentSlotIndex' = i + 1
            /\ pc' = "endWhile"
            /\ UNCHANGED i
       ELSE /\ i' = i + 1
            /\ UNCHANGED <<schedule, scheduled, currentSlotIndex, pc>>
    /\ UNCHANGED <<gridVars, compVars, tasks, clock, timeZone, sortedTasks, currentDate, taskIdx,
                   slotsNeeded>>

\* Lines 137-139: slot i is taken.
ForOccupied ==
    /\ pc = "for"
    /\ i < Len(timeSlots)
    /\ ~IsFree(schedule, dateString, i)
    /\ availableSlots' = 0
    /\ i' = i + 1
    /\ UNCHANGED <<gridVars, compVars, tasks, clock, timeZone, sortedTasks, schedule, currentDate,
                   currentSlotIndex, taskIdx, slotsNeeded, scheduled, pc>>

\* Line 125: the for loop runs off the grid.
ForEnd ==
    /\ pc = "for"
    /\ i >= Len(timeSlots)
    /\ pc' = "endWhile"
    /\ UNCHANGED <<gridVars, compVars, tasks, clock, timeZone, sortedTasks, schedule, currentDate,
                   currentSlotIndex, taskIdx, slotsNeeded, scheduled,
                   availableSlots, i>>

\* The local calendar days the run has moved on from the day of the call.
DaysAdvanced == LocalDay(currentDate, timeZone) - LocalDay(clock, timeZone)

\* AdvanceDay giving the task up: the next day is for the next task.
AdvanceDaySkipTask ==
    /\ pc = "endWhile"
    /\ ~scheduled
    /\ DaysAdvanced < MaxDays
    /\ currentDate' = SetDateNextDay(currentDate, timeZone)
    /\ currentSlotIndex' = 0
    /\ taskIdx' = taskIdx + 1
    /\ pc' = "forEach"
    /\ UNCHANGED <<gridVars, compVars, tasks, clock, timeZone, sortedTasks, schedule,
                   slotsNeeded, scheduled, availableSlots, i>>

\* AdvanceDay without line 145: the cursor is not reset.
AdvanceDayKeepCursor ==
    /\ pc = "endWhile"
    /\ ~scheduled
    /\ DaysAdvanced < MaxDays
    /\ currentDate' = SetDateNextDay(currentDate, timeZone)
    /\ pc' = "while"
    /\ UNCHANGED <<gridVars, compVars, tasks, clock, timeZone, sortedTasks, schedule, taskIdx,
                   slotsNeeded, scheduled, availableSlots, i, currentSlotIndex>>

\* Lines 142-146: not scheduled, move to the next day.
AdvanceDay ==
    /\ pc = "endWhile"
    /\ ~scheduled
    /\ DaysAdvanced < MaxDays
    /\ currentDate' = SetDateNextDay(currentDate, timeZone)
    /\ currentSlotIndex' = 0
    /\ pc' = "while"
    /\ UNCHANGED <<gridVars, compVars, tasks, clock, timeZone, sortedTasks, schedule, taskIdx,
                   slotsNeeded, scheduled, availableSlots, i>>

\* TaskPlaced going back: the next task is looked for from the first slot
\* of the day of the call.
TaskPlacedRewind ==
    /\ pc = "endWhile"
    /\ scheduled
    /\ taskIdx' = taskIdx + 1
    /\ currentDate' = clock
    /\ currentSlotIndex' = 0
    /\ pc' = "forEach"
    /\ UNCHANGED <<gridVars, compVars, tasks, clock, timeZone, sortedTasks, schedule,
                   slotsNeeded, scheduled, availableSlots, i>>

\* Lines 142, 118, 148: scheduled, the while loop ends and forEach goes on.
TaskPlaced ==
    /\ pc = "endWhile"
    /\ scheduled
    /\ taskIdx' = taskIdx + 1
    /\ pc' = "forEach"
    /\ UNCHANGED <<gridVars, compVars, tasks, clock, timeZone, sortedTasks, schedule, currentDate,
                   currentSlotIndex, slotsNeeded, scheduled, availableSlots, i>>

Next ==
    \/ Sort
    \/ ForEachTask
    \/ Return
    \/ WhileEnter
    \/ ForFree
    \/ ForOccupied
    \/ ForEnd
    \/ AdvanceDay
    \/ TaskPlaced

Spec == Init /\ [][Next]_vars

(***************************************************************************)
(* Runs on task lists that were not validated: the scheduler takes any     *)
(* duration (a list read from the storage at lines 44-46 is not checked).  *)
(***************************************************************************)
\* Durations of an unvalidated list: negative, zero, and one slot.
UnvalidatedDurations == {-30, 0, 30}

UnvalidatedForms ==
    {TaskForm(d, "Average", p, 1) :
        d \in UnvalidatedDurations, p \in RunPriorities}

UnvalidatedInit ==
    /\ IsTaskList(tasks, UnvalidatedForms, MaxTasks)
    /\ \E env \in Environments : clock = env.now /\ timeZone = env.zone
    /\ LocalsInit
    /\ NoComponent
    /\ NoGrid

UnvalidatedSpec == UnvalidatedInit /\ [][Next]_vars

(***************************************************************************)
(* The ranking alone: task lists over every priority and importance.       *)
(***************************************************************************)
RankForms ==
    {TaskForm(30, imp, pri, dl) :
        imp \in Importances, pri \in Priorities, dl \in Deadlines}

RankInit ==
    /\ IsTaskList(tasks, RankForms, MaxRankTasks)
    /\ clock = 2436
    /\ timeZone = UTC
    /\ LocalsInit
    /\ NoComponent
    /\ NoGrid

RankSpec == RankInit /\ [][Sort]_vars

(***************************************************************************)
(* generateSchedule as a function of its argument and of the host (clock   *)
(* and time zone): what one call returns.                                  *)
(***************************************************************************)
\* The for loop of lines 125-140 from index idx with `available` counted:
\* the index at which the run is complete, or -1.
RECURSIVE ScanDay(_, _, _, _, _)
ScanDay(sched, date, idx, available, needed) ==
    IF idx >= Len(timeSlots) THEN -1
    ELSE IF IsFree(sched, date, idx)
    THEN IF available + 1 = needed THEN idx
         ELSE ScanDay(sched, date, idx + 1, available + 1, needed)
    ELSE ScanDay(sched, date, idx + 1, 0, needed)

\* The while loop of lines 118-147 for task t.  `left` is the number of day
\* advances the model still follows.
RECURSIVE PlaceTask(_, _, _, _, _, _)
PlaceTask(t, sched, date, cursor, zone, left) ==
    LET key == DateString(date)
        s1 == EnsureDate(sched, key)
        found == ScanDay(s1, key, cursor, 0, SlotsNeeded(t))
    IN  IF found >= 0
        THEN [scheduled |-> TRUE,
              schedule |-> AssignRun(s1, key, found, SlotsNeeded(t), t),
              currentDate |-> date, currentSlotIndex |-> found + 1]
        ELSE IF left = 0
        THEN [scheduled |-> FALSE, schedule |-> s1, currentDate |-> date,
              currentSlotIndex |-> cursor]
        ELSE PlaceTask(t, s1, SetDateNextDay(date, zone), 0, zone, left - 1)

\* forEach (lines 113-148) from position k on.
RECURSIVE PlaceTasks(_, _, _, _, _, _, _)
PlaceTasks(sorted, k, sched, date, cursor, zone, start) ==
    IF k > Len(sorted)
    THEN [returned |-> TRUE, schedule |-> sched, currentDate |-> date,
          currentSlotIndex |-> cursor]
    ELSE LET left == MaxDays - (LocalDay(date, zone) - LocalDay(start, zone))
             r == PlaceTask(sorted[k], sched, date, cursor, zone, left)
         IN  IF r.scheduled
             THEN PlaceTasks(sorted, k + 1, r.schedule, r.currentDate,
                             r.currentSlotIndex, zone, start)
             ELSE [returned |-> FALSE, schedule |-> r.schedule,
                   currentDate |-> r.currentDate,
                   currentSlotIndex |-> r.currentSlotIndex]

\* generateSchedule(ts) called at instant now in time zone `zone`;
\* returned is FALSE when the call is still advancing days after MaxDays.
generateSchedule(ts, now, zone) ==
    PlaceTasks(SortTasks(ts), 1, <<>>, now, 0, zone, now)

\* The stepwise run and the function agree.
RunAgreesWithFunction ==
    pc = "done" => generateSchedule(tasks, clock, timeZone)
                       = [returned |-> TRUE, schedule |-> schedule,
                          currentDate |-> currentDate,
                          currentSlotIndex |-> currentSlotIndex]

(***************************************************************************)
(* The TaskManager component (lines 32-80).  localStorage holds under a    *)
(* key what JSON.parse gives back for the string stored there: for the     *)
(* numbers and strings of a task list or a schedule, the value that was    *)
(* stringified.  The browser starts with an empty storage; what a session  *)
(* leaves there is found by the next one (Reload).  Time passes between    *)
(* one event and the next; an effect runs right after its event, and the   *)
(* call of generateSchedule in it reads the clock (line 110).              *)
(***************************************************************************)
\* What is typed into the form: a title, the duration of a full-day task
\* and of a task longer than a day, a priority.  An input's value is a
\* string (line 61); the duration is kept here as the number it denotes,
\* which line 115 divides by 30 with the same result.
TypedValues ==
    {<<"title", "t">>, <<"duration", 480>>, <<"duration", 600>>,
     <<"priority", "ASAP">>}

\* The instants at which the next event can happen: now, or a day later.
LaterClocks == {c \in {clock, clock + 24} : DateString(c) <= LastDay}

\* localStorage.getItem(key) ? JSON.parse(...) : []  (lines 44-45)
StoredOrEmpty(storage, key) ==
    IF HasKey(storage, key) THEN storage[key] ELSE <<>>

\* The first render in a browser whose storage is empty: useState([]) and
\* useState({})  (lines 33-34).
CompInit ==
    /\ \E env \in Environments : clock = env.now /\ timeZone = env.zone
    /\ localStorage = <<>>
    /\ lastId = 0
    /\ newTask = DefaultNewTask(clock)
    /\ tasksState = <<>>
    /\ scheduleState = <<>>
    /\ phase = "mount"
    /\ tasks = <<>>
    /\ LocalsInit
    /\ NoGrid

\* The effects of the first render.  Lines 43-47 read the storage and set
\* the tasks; lines 49-56 run with the tasks of that render, [], and do
\* nothing.  The new tasks array makes the component render again.
Mount ==
    /\ phase = "mount"
    /\ tasksState' = StoredOrEmpty(localStorage, "tasks")
    /\ phase' = "effect"
    /\ UNCHANGED <<scheduleState, localStorage, lastId, newTask, clock, timeZone,
                   callVars, gridVars>>

\* Lines 49-56: the effect of a render with a new tasks array.  A call of
\* generateSchedule that does not return leaves the component in it.
TasksEffect ==
    /\ phase = "effect"
    /\ LET saved == IF Len(tasksState) # 0
                    THEN Put(localStorage, "tasks", tasksState)
                    ELSE localStorage
           newSchedule == generateSchedule(tasksState, clock, timeZone)
       IN  IF Len(tasksState) > 0
           THEN IF newSchedule.returned
                THEN /\ scheduleState' = newSchedule.schedule
                     /\ localStorage' = Put(saved, "schedule", newSchedule.schedule)
                     /\ phase' = "idle"
                ELSE /\ localStorage' = saved
                     /\ phase' = "hung"
                     /\ UNCHANGED scheduleState
           ELSE /\ phase' = "idle"
                /\ UNCHANGED <<scheduleState, localStorage>>
    /\ UNCHANGED <<tasksState, lastId, newTask, clock, timeZone, callVars,
                   gridVars>>

\* Lines 58-63: a field of the form is typed or chosen.
handleInputChange ==
    /\ phase = "idle"
    /\ \E nv \in TypedValues :
           /\ newTask[nv[1]] # nv[2]
           /\ newTask' = [newTask EXCEPT ![nv[1]] = nv[2]]
    /\ UNCHANGED <<tasksState, scheduleState, localStorage, lastId, phase, clock,
                   timeZone, callVars, gridVars>>

\* Lines 65-76: the form is submitted, which the browser allows once the
\* required title is there (line 180), and reset with the date of that
\* instant.  The id is Date.now() (line 67): a value not given before, or,
\* in the same millisecond or with the clock set back, one given before.
\* lastId is the largest id given.
addTask ==
    /\ phase = "idle"
    /\ newTask.title # ""
    /\ Len(tasksState) < MaxListed
    /\ \E id \in 1..(lastId + 1) :
           /\ id <= MaxId
           /\ tasksState' = Append(tasksState, WithId(newTask, id))
           /\ lastId' = IF id > lastId THEN id ELSE lastId
    /\ clock' \in LaterClocks
    /\ newTask' = DefaultNewTask(clock')
    /\ phase' = "effect"
    /\ UNCHANGED <<scheduleState, localStorage, timeZone, callVars,
                   gridVars>>

\* Lines 78-80: the delete button of a listed task.
deleteTask ==
    /\ phase = "idle"
    /\ \E k \in 1..Len(tasksState) :
           LET id == tasksState[k].id
           IN  tasksState' = SelectSeq(tasksState, LAMBDA t : t.id # id)
    /\ clock' \in LaterClocks
    /\ phase' = "effect"
    /\ UNCHANGED <<scheduleState, localStorage, lastId, newTask, timeZone,
                   callVars, gridVars>>

\* The page is loaded again (a page whose effect does not return is closed
\* first): the component starts from useState([]) and useState({})
\* and the default form (lines 33-41); the storage is what the session
\* left.
Reload ==
    /\ phase \in {"idle", "hung"}
    /\ tasksState' = <<>>
    /\ scheduleState' = <<>>
    /\ clock' \in LaterClocks
    /\ newTask' = DefaultNewTask(clock')
    /\ phase' = "mount"
    /\ UNCHANGED <<localStorage, lastId, timeZone, callVars, gridVars>>

CompNext ==
    \/ Mount
    \/ TasksEffect
    \/ handleInputChange
    \/ addTask
    \/ deleteTask
    \/ Reload

CompSpec == CompInit /\ [][CompNext]_vars

(***************************************************************************)
(* generateTimeSlots called with arguments.                                *)
(***************************************************************************)
\* The hours handed to generateTimeSlots.
GridHours == 7..18

GridInit ==
    /\ startHourArg \in GridHours
    /\ endHourArg \in GridHours
    /\ slots = <<>>
    /\ gridPc = "call"
    /\ tasks = <<>>
    /\ clock = 2436
    /\ timeZone = UTC
    /\ LocalsInit
    /\ NoComponent

\* Lines 11-18: the call runs and returns its slots.
CallGenerateTimeSlots ==
    /\ gridPc = "call"
    /\ slots' = generateTimeSlots(startHourArg, endHourArg)
    /\ gridPc' = "returned"
    /\ UNCHANGED <<startHourArg, endHourArg, compVars, clock, timeZone, callVars>>

GridSpec == GridInit /\ [][CallGenerateTimeSlots]_vars

(***************************************************************************)
(* Vocabulary of the claims.                                               *)
(***************************************************************************)
SlotIndexes == 0 .. (Len(timeSlots) - 1)

\* The cells <<date, slot index>> of sched that hold task t.
Cells(sched, t) ==
    {c \in (DOMAIN sched) \X SlotIndexes :
        /\ HasKey(sched[c[1]], timeSlots[c[2] + 1])
        /\ sched[c[1]][timeSlots[c[2] + 1]] = t}

\* The tasks recorded on date d of sched.
TasksOn(sched, d) == {sched[d][l] : l \in DOMAIN sched[d]}

\* The position of task t in the input.
InputPosition(t) == CHOOSE k \in 1..Len(tasks) : tasks[k] = t

(***************************************************************************)
(* C1.  During one run of generateSchedule a (date, slot) entry that has   *)
(* been assigned a task is never assigned again: every step keeps every    *)
(* date key, every occupied slot and the task recorded in it, and what a   *)
(* slot holds is one task of the input.                                    *)
(***************************************************************************)
C1_SlotsKept ==
    \A d \in DOMAIN schedule :
        /\ HasKey(schedule', d)
        /\ \A l \in DOMAIN schedule[d] :
               /\ HasKey(schedule'[d], l)
               /\ schedule'[d][l] = schedule[d][l]

\* C1: what a slot holds is a task of the input, and no step of the run
\* removes or changes an entry of the schedule.
C1_NeverReassigned ==
    /\ [](\A d \in DOMAIN schedule :
             \A l \in DOMAIN schedule[d] :
                 \E k \in 1..Len(tasks) : schedule[d][l] = tasks[k])
    /\ [][C1_SlotsKept]_vars

\* A second task has been written on a date that already held one.
C1_Witness ==
    \E d \in DOMAIN schedule : Cardinality(TasksOn(schedule, d)) >= 2

(***************************************************************************)
(* C2.  In the returned schedule every placed task occupies exactly        *)
(* ceil(duration/30) slots, all on one date, with consecutive indices in   *)
(* the slot grid.                                                          *)
(***************************************************************************)
\* ceil(d / 30): the least n with 30 * n >= d.
CeilSlots(d) == CHOOSE n \in 0..d : 30 * n >= d /\ 30 * (n - 1) < d

\* The cells cs are a run of n consecutive slots of a single date.
IsRun(cs, n) ==
    /\ Cardinality(cs) = n
    /\ \A a, b \in cs : a[1] = b[1]
    /\ \A a, b \in cs : a[2] - b[2] < n

\* C2: at the return, the cells of every placed task are a run of
\* ceil(duration/30) consecutive slots of one date.
C2_Contiguity ==
    pc = "done" =>
        \A k \in 1..Len(tasks) :
            Cells(schedule, tasks[k]) # {} =>
                IsRun(Cells(schedule, tasks[k]), CeilSlots(tasks[k].duration))

\* A returned schedule in which a 45-minute task holds two slots and a
\* 450-minute task fifteen.
C2_Witness ==
    /\ pc = "done"
    /\ \E k \in 1..Len(tasks) :
           tasks[k].duration = 45 /\ Cardinality(Cells(schedule, tasks[k])) = 2
    /\ \E k \in 1..Len(tasks) :
           tasks[k].duration = 450 /\ Cardinality(Cells(schedule, tasks[k])) = 15

(***************************************************************************)
(* C3.  Whenever generateSchedule returns, every task of the input is in   *)
(* the schedule, in one location (one date, one unbroken run of slots),    *)
(* and every entry of the schedule is a task of the input: nothing is      *)
(* missing and nothing partial is returned.                                *)
(***************************************************************************)
\* The cells cs are not empty, on one date, and without a gap.
OneLocation(cs) ==
    /\ cs # {}
    /\ \A a, b \in cs : a[1] = b[1]
    /\ \A a, b \in cs : \A x \in SlotIndexes :
           (a[2] < x /\ x < b[2]) => <<a[1], x>> \in cs

\* C3: at the return, every input task is in exactly one location and the
\* schedule holds input tasks only.
C3_Completeness ==
    pc = "done" =>
        /\ \A k \in 1..Len(tasks) : OneLocation(Cells(schedule, tasks[k]))
        /\ \A d \in DOMAIN schedule :
               TasksOn(schedule, d) \subseteq {tasks[k] : k \in 1..Len(tasks)}

\* A returned schedule of MaxTasks tasks that spreads over two dates.
C3_Witness ==
    /\ pc = "done"
    /\ Len(tasks) = MaxTasks
    /\ \E d1, d2 \in DOMAIN schedule :
           d1 # d2 /\ TasksOn(schedule, d1) # {} /\ TasksOn(schedule, d2) # {}

(***************************************************************************)
(* C4.  For two task lists that are permutations of each other, and the    *)
(* same reference date, generateSchedule produces identical placements.    *)
(* C4_AnyPermutation states it for every permutation; C4_TieOrderKept for  *)
(* the permutations that leave tasks with equal (priority, importance,     *)
(* deadline) in the same relative order.                                   *)
(***************************************************************************)
\* The lists that are permutations of ts.
Permuted(ts) ==
    {[k \in 1..Len(ts) |-> ts[f[k]]] : f \in Permutations(1..Len(ts))}

SameRankFields(ta, tb) ==
    /\ ta.priority = tb.priority
    /\ ta.importance = tb.importance
    /\ ta.deadline = tb.deadline

\* p lists tasks with equal ranking fields in the order the input does.
KeepsTieOrder(p) ==
    \A a, b \in 1..Len(p) :
        (a < b /\ SameRankFields(p[a], p[b]))
            => InputPosition(p[a]) < InputPosition(p[b])

\* The call on p returns the schedule this run returned.
SamePlacements(p) ==
    LET r == generateSchedule(p, clock, timeZone)
    IN  r.returned /\ r.schedule = schedule

\* C4 as claimed: the call on any permutation of the input returns the
\* same schedule.
C4_AnyPermutation ==
    pc = "done" => \A p \in Permuted(tasks) : SamePlacements(p)

\* C4 as amended: the call on a permutation that keeps the relative order
\* of tasks with equal ranking fields returns the same schedule.
C4_TieOrderKept ==
    pc = "done" =>
        \A p \in Permuted(tasks) : KeepsTieOrder(p) => SamePlacements(p)

\* A returned run of three tasks of different durations, two of them with
\* equal ranking fields, of which another order keeps the tie order.
C4_Witness ==
    /\ pc = "done"
    /\ Len(tasks) = 3
    /\ SameRankFields(tasks[1], tasks[3])
    /\ ~SameRankFields(tasks[1], tasks[2])
    /\ tasks[1].duration # tasks[3].duration
    /\ \E p \in Permuted(tasks) : p # tasks /\ KeepsTieOrder(p)

(***************************************************************************)
(* C5.  For every task list whose tasks all last between 1 and 480         *)
(* minutes (1 to 16 slots), generateSchedule terminates: the call reaches  *)
(* its return.  The call is sequential code that runs to completion, so    *)
(* every step that can be taken is taken.                                  *)
(***************************************************************************)
FairSpec == Spec /\ WF_vars(Next)

AllFitOneDay == \A k \in 1..Len(tasks) : 1 <= tasks[k].duration /\ tasks[k].duration <= 480

\* C5: if every task lasts 1 to 480 minutes, the call eventually returns.
C5_Terminates == AllFitOneDay => <>(pc = "done")

\* A run of MaxTasks tasks that all fit one day has returned after a task
\* found its day full and moved on.
C5_Witness ==
    /\ pc = "done"
    /\ AllFitOneDay
    /\ Len(tasks) = MaxTasks
    /\ DaysAdvanced >= 1

(***************************************************************************)
(* C6.  When the input holds a task whose slotsNeeded exceeds the slots of *)
(* one day, the call ends with a failure reported to the caller after a    *)
(* bounded number of day advances: while such a task is being placed the   *)
(* run has moved on fewer than MaxDays days.                               *)
(***************************************************************************)
\* C6: a task that needs more slots than a day has does not keep the run
\* advancing: it is given up before MaxDays day advances.
C6_UnschedulableFails ==
    (pc \in {"while", "for", "endWhile"} /\ slotsNeeded > Len(timeSlots))
        => DaysAdvanced < MaxDays

(***************************************************************************)
(* C7.  After any sequence of task-set changes (initial load, addTask,     *)
(* deleteTask), once the effect for the change has run, the component's    *)
(* schedule is generateSchedule of its current task list; after the last   *)
(* task is deleted it is the empty schedule.                               *)
(***************************************************************************)
\* C7: whenever no effect is pending, the schedule state is what
\* generateSchedule returns for the task list state.
C7_ScheduleFollowsTasks ==
    phase = "idle" =>
        LET r == generateSchedule(tasksState, clock, timeZone)
        IN  r.returned /\ scheduleState = r.schedule

(***************************************************************************)
(* C8.  If task A comes before task B in the ranked order of a run, every  *)
(* cell of A is before every cell of B in (date, slot index) order; and a  *)
(* task of priority ASAP is placed before a task of priority Soft          *)
(* deadline, whatever their order in the input.                            *)
(***************************************************************************)
CellBefore(a, b) == a[1] < b[1] \/ (a[1] = b[1] /\ a[2] < b[2])

PlacedBefore(sched, ta, tb) ==
    \A a \in Cells(sched, ta) : \A b \in Cells(sched, tb) : CellBefore(a, b)

\* C8: at the return, a task ranked earlier is placed earlier, and an ASAP
\* priority task is placed before a Soft deadline priority task.
C8_RankOrderIsPlacementOrder ==
    pc = "done" =>
        /\ \A a, b \in 1..Len(sortedTasks) :
               a < b => PlacedBefore(schedule, sortedTasks[a], sortedTasks[b])
        /\ \A j, k \in 1..Len(tasks) :
               (tasks[j].priority = "ASAP" /\ tasks[k].priority = "Soft deadline")
                   => PlacedBefore(schedule, tasks[j], tasks[k])

\* Scenario A: a Soft deadline task first in the input and an ASAP task
\* second, both of 30 minutes, returned with the ASAP task in the first
\* slot of the day and the other in the second.
C8_Witness ==
    /\ pc = "done"
    /\ Len(tasks) = 2
    /\ tasks[1].priority = "Soft deadline" /\ tasks[1].duration = 30
    /\ tasks[2].priority = "ASAP" /\ tasks[2].duration = 30
    /\ Cells(schedule, tasks[2]) = {<<DateString(clock), 0>>}
    /\ Cells(schedule, tasks[1]) = {<<DateString(clock), 1>>}

(***************************************************************************)
(* C9.  For tasks placed on the same date, in ranking order, each task's   *)
(* first slot index is at least the previous task's last slot index + 1;   *)
(* currentSlotIndex never decreases while currentDate stays the same, and  *)
(* it is reset to 0 exactly when currentDate advances by one calendar day. *)
(***************************************************************************)
\* The position of task t in the ranked order.
RankPosition(t) == CHOOSE a \in 1..Len(sortedTasks) : sortedTasks[a] = t

\* On every date, a slot of a task ranked later lies behind every slot of
\* a task ranked earlier.
C9_SameDateOrder ==
    \A d \in DOMAIN schedule :
        \A x, y \in SlotIndexes :
            (/\ HasKey(schedule[d], timeSlots[x + 1])
             /\ HasKey(schedule[d], timeSlots[y + 1])
             /\ RankPosition(schedule[d][timeSlots[x + 1]])
                    < RankPosition(schedule[d][timeSlots[y + 1]]))
                => y >= x + 1

C9_CursorStep ==
    pc # "start" =>
        /\ currentDate' = currentDate => currentSlotIndex' >= currentSlotIndex
        /\ currentDate' # currentDate =>
               /\ currentSlotIndex' = 0
               /\ LocalDay(currentDate', timeZone)
                      = LocalDay(currentDate, timeZone) + 1
        /\ (currentSlotIndex > 0 /\ currentSlotIndex' = 0)
               => currentDate' # currentDate

\* C9: same-date slots follow the ranking, and the cursor only grows on a
\* date and is reset to 0 exactly by a one-day advance.  The order of the
\* slots is looked at after every placement and at the return: the
\* schedule gets no slot in any other step.
C9_MonotonicCursor ==
    /\ [](pc \in {"endWhile", "done"} => C9_SameDateOrder)
    /\ [][C9_CursorStep]_vars

\* After a day advance that reset a cursor above 0, a second task has been
\* placed behind the first one of the new date.
C9_Witness ==
    /\ pc = "endWhile"
    /\ scheduled
    /\ DaysAdvanced >= 1
    /\ Cardinality(TasksOn(schedule, dateString)) >= 2
    /\ \E d \in DOMAIN schedule : d # dateString /\ TasksOn(schedule, d) # {}

(***************************************************************************)
(* C10.  The order in which generateSchedule places tasks is the stable    *)
(* lexicographic sort of the input by (priority rank, importance rank,     *)
(* deadline): sortedTasks holds the tasks of the input, each once; of two  *)
(* tasks the one with the smaller key comes first, priority deciding       *)
(* before importance and importance before deadline; tasks with equal keys *)
(* keep their input order.                                                 *)
(***************************************************************************)
PriorityRank(p) ==
    CASE p = "ASAP" -> 0
      [] p = "Hard deadline" -> 1
      [] p = "Soft deadline" -> 2
      [] p = "No deadline" -> 3

ImportanceRank(m) ==
    CASE m = "ASAP" -> 0
      [] m = "High" -> 1
      [] m = "Average" -> 2
      [] m = "Low" -> 3

RankKey(t) == <<PriorityRank(t.priority), ImportanceRank(t.importance), t.deadline>>

LexLess(k1, k2) ==
    \/ k1[1] < k2[1]
    \/ k1[1] = k2[1] /\ k1[2] < k2[2]
    \/ k1[1] = k2[1] /\ k1[2] = k2[2] /\ k1[3] < k2[3]

\* C10: once ranked, sortedTasks is the input in stable lexicographic order
\* of (priority rank, importance rank, deadline).
C10_StableLexSort ==
    pc # "start" =>
        /\ Len(sortedTasks) = Len(tasks)
        /\ \A k \in 1..Len(tasks) : \E a \in 1..Len(sortedTasks) : sortedTasks[a] = tasks[k]
        /\ \A a, b \in 1..Len(sortedTasks) :
               a < b =>
                   \/ LexLess(RankKey(sortedTasks[a]), RankKey(sortedTasks[b]))
                   \/ /\ RankKey(sortedTasks[a]) = RankKey(sortedTasks[b])
                      /\ InputPosition(sortedTasks[a]) < InputPosition(sortedTasks[b])

\* Three tasks ranked: the first two tie on all keys and keep their order
\* behind the third, whose ASAP priority beats their ASAP importance.
C10_Witness ==
    /\ pc = "forEach"
    /\ Len(tasks) = 3
    /\ RankKey(tasks[1]) = RankKey(tasks[2])
    /\ tasks[1].priority = "Soft deadline" /\ tasks[1].importance = "ASAP"
    /\ tasks[3].priority = "ASAP" /\ tasks[3].importance = "Low"
    /\ sortedTasks = <<tasks[3], tasks[1], tasks[2]>>

(***************************************************************************)
(* C11.  When forEach takes a task that needs n slots (1 <= n <= 16) with  *)
(* the cursor at index c of the current date, the task is placed at the    *)
(* indices c .. c+n-1 of the current date if c + n <= 16, and at the       *)
(* indices 0 .. n-1 of the next calendar date otherwise; so the 17th of 17 *)
(* tasks of 30 minutes gets the first slot of the date after the date of   *)
(* the call.                                                               *)
(***************************************************************************)
\* Scenario C: 17 tasks of 30 minutes.
SeventeenTasks ==
    [k \in 1..17 |-> WithId(TaskForm(30, "Average", "Soft deadline", 1), k)]

\* The cells the while loop gives task t from the running state of this run.
CellsPlaced(t) ==
    LET r == PlaceTask(t, schedule, currentDate, currentSlotIndex, timeZone,
                       MaxDays)
    IN  IF r.scheduled THEN Cells(r.schedule, t) ELSE {}

\* C11: a task taken with the cursor at c is placed at c .. c+n-1 of the
\* current date if that fits the grid, else at 0 .. n-1 of the next date;
\* the 17th of 17 half-hour tasks is placed at 9:00 of the next date.
C11_CursorRule ==
    /\ (pc = "forEach" /\ taskIdx <= Len(sortedTasks)
            /\ SlotsNeeded(task) \in 1..Len(timeSlots)) =>
           LET n == SlotsNeeded(task)
               c == currentSlotIndex
           IN  CellsPlaced(task)
                   = IF c + n <= Len(timeSlots)
                     THEN {dateString} \X (c .. (c + n - 1))
                     ELSE {dateString + 1} \X (0 .. (n - 1))
    /\ pc = "start" =>
           LET r == generateSchedule(SeventeenTasks, clock, timeZone)
           IN  /\ r.returned
               /\ Cells(r.schedule, SeventeenTasks[17])
                      = {<<DateString(clock) + 1, 0>>}

(***************************************************************************)
(* C12.  For integers startHour < endHour, generateTimeSlots returns       *)
(* exactly 2 * (endHour - startHour) labels in increasing time order,      *)
(* h:00 immediately followed by h:30 for each h from startHour up to       *)
(* endHour - 1, with no duplicates and no label for endHour; with the      *)
(* defaults (9, 17) it returns the 16 slots from 9:00 to 16:30.            *)
(***************************************************************************)
\* The minute of the day a label stands for.
LabelTime(label) == 60 * label[1] + label[2]

\* C12: a call with startHour < endHour returns the labels h:00, h:30 of
\* the hours startHour .. endHour - 1 in time order, each once, none for
\* endHour; the defaults give 16 slots from 9:00 to 16:30.
C12_GridContract ==
    (gridPc = "returned" /\ startHourArg < endHourArg) =>
        /\ Len(slots) = 2 * (endHourArg - startHourArg)
        /\ \A h \in startHourArg .. (endHourArg - 1) :
               /\ slots[2 * (h - startHourArg) + 1] = <<h, 0>>
               /\ slots[2 * (h - startHourArg) + 2] = <<h, 30>>
        /\ \A a, b \in 1..Len(slots) :
               a < b => LabelTime(slots[a]) < LabelTime(slots[b])
        /\ \A a, b \in 1..Len(slots) : a # b => slots[a] # slots[b]
        /\ \A a \in 1..Len(slots) : slots[a][1] # endHourArg
        /\ (startHourArg = DefaultStartHour /\ endHourArg = DefaultEndHour) =>
               /\ Len(slots) = 16
               /\ slots[1] = <<9, 0>>
               /\ slots[16] = <<16, 30>>
               /\ slots = timeSlots

\* The call with the default hours has returned its 16 slots.
C12_Witness ==
    /\ gridPc = "returned"
    /\ startHourArg = 9
    /\ endHourArg = 17
    /\ Len(slots) = 16

(***************************************************************************)
(* C13.  A task with duration <= 0 that reaches the scheduler makes the    *)
(* call fail fast: the call ends without placing the task, it neither      *)
(* places it nor goes on day after day looking for a place.                *)
(***************************************************************************)
\* C13: a task of duration <= 0 is in no slot, and while the call is at
\* such a task it has moved on fewer than MaxDays days.
C13_InvalidDurationFails ==
    /\ \A k \in 1..Len(tasks) :
           tasks[k].duration <= 0 => Cells(schedule, tasks[k]) = {}
    /\ (pc \in {"while", "for", "endWhile"} /\ task.duration <= 0)
           => DaysAdvanced < MaxDays

(***************************************************************************)
(* C14.  When the grid is requested with endHour <= startHour the          *)
(* generator fails with a configuration error: such a call does not        *)
(* return a grid, empty or not.                                            *)
(***************************************************************************)
\* C14: a call of generateTimeSlots with endHour <= startHour does not
\* return.
C14_MalformedGridFails ==
    endHourArg <= startHourArg => gridPc # "returned"

(***************************************************************************)
(* C15.  The allocator never goes back: once the cursor has passed slot    *)
(* position p of date d (currentSlotIndex > p while on d, or currentDate   *)
(* on a later date), the content of (d, p) never changes for the rest of   *)
(* the run; a slot left free behind the cursor stays free in the returned  *)
(* schedule even when a later, smaller task would fit there.               *)
(***************************************************************************)
\* The date keys a run can come to.
RunDates == DateString(clock) .. (DateString(clock) + MaxDays + 1)

\* What slot p of date d holds: <<task>>, or <<>> when it is free.
Content(sched, d, p) ==
    IF HasKey(sched, d) /\ HasKey(sched[d], timeSlots[p + 1])
    THEN <<sched[d][timeSlots[p + 1]]>>
    ELSE <<>>

\* The cursor <<date, index>> is behind position p of date d.
Passed(date, index, d, p) ==
    \/ DateString(date) > d
    \/ DateString(date) = d /\ index > p

\* A step keeps what a passed or an occupied position holds, and a passed
\* position stays passed unless it is occupied: so what a position holds
\* when the cursor passes it, it holds for the rest of the run.
C15_Step ==
    \A d \in RunDates : \A p \in SlotIndexes :
        /\ Content(schedule, d, p) # <<>>
               => Content(schedule', d, p) = Content(schedule, d, p)
        /\ (pc # "start" /\ Passed(currentDate, currentSlotIndex, d, p)) =>
               /\ Content(schedule', d, p) = Content(schedule, d, p)
               /\ \/ Passed(currentDate', currentSlotIndex', d, p)
                  \/ Content(schedule, d, p) # <<>>

\* C15: no step of the run changes a position the cursor has passed.
C15_NeverGoesBack == [][C15_Step]_vars

\* A returned schedule with a free slot on a date before the last one and
\* a one-slot task, ranked last, on the last date.
C15_Witness ==
    /\ pc = "done"
    /\ Len(sortedTasks) = 3
    /\ SlotsNeeded(sortedTasks[3]) = 1
    /\ \E d \in DOMAIN schedule : \E p \in SlotIndexes :
           /\ d < dateString
           /\ TasksOn(schedule, d) # {}
           /\ Content(schedule, d, p) = <<>>
           /\ \A c \in Cells(schedule, sortedTasks[3]) : c[1] > d

(***************************************************************************)
(* C16.  In every state of the placement loop every occupied slot of the   *)
(* current date has an index below currentSlotIndex and no later date has  *)
(* an occupied slot; so the scan from currentSlotIndex never meets an      *)
(* occupied slot and the branch that resets the count of free slots        *)
(* (lines 137-139) is never executed.                                      *)
(***************************************************************************)
\* C16: in the placement loop the occupied slots of the current date are
\* below the cursor, later dates hold nothing, and the for loop is never
\* at an occupied slot.
C16_ScanMeetsNoOccupied ==
    pc \in {"forEach", "while", "for", "endWhile"} =>
        /\ \A p \in SlotIndexes :
               Content(schedule, dateString, p) # <<>> => p < currentSlotIndex
        /\ \A d \in DOMAIN schedule :
               d > dateString => TasksOn(schedule, d) = {}
        /\ ~(pc = "for" /\ i < Len(timeSlots)
                 /\ ~IsFree(schedule, dateString, i))

(***************************************************************************)
(* C17.  For task lists in which every task needs 1 to 16 slots, each task *)
(* advances currentDate at most once, and the date keys of the returned    *)
(* schedule are a gap-free run of consecutive calendar dates that starts   *)
(* at the date of the call, each with at least one occupied slot; for the  *)
(* empty task list the returned schedule has no date key.                  *)
(***************************************************************************)
\* The dates from the date of the call on, as many as sched has keys.
DatesFromCall(sched) ==
    DateString(clock) .. (DateString(clock) + Cardinality(DOMAIN sched) - 1)

\* C17: a task that fits one day is placed after at most one day advance;
\* the returned date keys are consecutive from the date of the call and
\* none is empty; no task, no date key.
C17_ConsecutiveDates ==
    AllFitOneDay =>
        /\ (pc = "forEach" /\ taskIdx <= Len(sortedTasks)) =>
               PlaceTask(task, schedule, currentDate, currentSlotIndex,
                         timeZone, 1).scheduled
        /\ pc = "done" =>
               /\ DOMAIN schedule = DatesFromCall(schedule)
               /\ \A d \in DOMAIN schedule : TasksOn(schedule, d) # {}
               /\ tasks = <<>> => DOMAIN schedule = {}

(***************************************************************************)
(* C18.  generateSchedule leaves its input untouched: the caller's task    *)
(* list has the same tasks in the same order after the call as before      *)
(* (the ranking sorts a copy), and every task stored in a slot is          *)
(* field-for-field equal to the input task it was placed for.              *)
(***************************************************************************)
\* The slots the placement of the current task has just written.
JustWritten ==
    {dateString} \X ((currentSlotIndex - slotsNeeded) .. (currentSlotIndex - 1))

\* What has just been written is the input task with the id of the task
\* that was being placed, field for field.
C18_StoredAsGiven ==
    (pc = "endWhile" /\ scheduled) =>
        \A c \in JustWritten :
            \E k \in 1..Len(tasks) :
                /\ tasks[k].id = task.id
                /\ Content(schedule, c[1], c[2]) = <<tasks[k]>>

\* C18: no step of the call changes the task list it was given, and a slot
\* is given the input task, unchanged.
C18_InputUntouched ==
    /\ [][tasks' = tasks]_vars
    /\ []C18_StoredAsGiven

\* A call has returned whose ranking put the third task of the input first;
\* the input is in the order it was given.
C18_Witness ==
    /\ pc = "done"
    /\ Len(tasks) = 3
    /\ tasks[1].priority = "Soft deadline"
    /\ tasks[3].priority = "ASAP"
    /\ sortedTasks[1] = tasks[3]
    /\ sortedTasks # tasks
    /\ Cells(schedule, tasks[3]) # {}

(***************************************************************************)
(* C19.  After any sequence of addTask and deleteTask, once the effect for *)
(* the last change has run, the task list persisted under the storage key  *)
(* "tasks" equals the component's current task list: a reload, which reads *)
(* that key, restores exactly the current tasks and brings back no deleted *)
(* task, also when the last remaining task was deleted.                    *)
(***************************************************************************)
\* C19: whenever no effect is pending, what a reload would read under the
\* key "tasks" is the current task list.
C19_StorageFollowsTasks ==
    phase = "idle" => StoredOrEmpty(localStorage, "tasks") = tasksState

====
